---------------------------- MODULE Spec2Model ----------------------------
(***************************************************************************)
(* State-machine model of AudioRenderer (src/audio.cpp): the producer      *)
(* thread calling start / pushFrame / getBufferSize / getSecondsPlayed /   *)
(* resetSecondsPlayed, the playback thread running audioThreadHandler,     *)
(* the pthread mutex and condition variable they share, and the OpenAL     *)
(* source the playback thread drives.                                      *)
(*                                                                         *)
(* The OpenAL source is outside the repository.  It is modelled by what    *)
(* each call the code makes does when it succeeds: alSourceQueueBuffers    *)
(* appends a buffer to the source's queue, alSourceUnqueueBuffers removes  *)
(* the oldest processed one, alSourcei(AL_BUFFER, 0) detaches all of them, *)
(* alSourcePlay (re)starts the queue from its first buffer, and a playing  *)
(* source processes its buffers in order and stops after the last one.     *)
(*                                                                         *)
(* secondsPlayed is a float in the code.  Here it is an exact count of     *)
(* ticks of 1/TicksPerSecond second, so one frame adds                     *)
(* sampleCount * (TicksPerSecond / sampleRate) ticks.                      *)
(***************************************************************************)
EXTENDS Integers, Sequences, FiniteSets, TLC

VARIABLES
    \* ---- AudioRenderer fields (src/audio.cpp:58-72)
    audioQueue,          \* std::queue<AudioFrame *>
    queuedSampleCount,
    bufferedSampleCount,
    secondsPlayed,       \* in ticks
    device,              \* ALCdevice * is non-null
    context,             \* ALCcontext * is non-null
    mutex,               \* "free" | "producer" | "thread"
    woken,               \* a pthread_cond_signal is pending for the waiter
    \* ---- what start() did so far
    startResult,         \* return value of the last start(): "none"|"true"|"false"
    startEntry,          \* path of the last start(): "none"|"already"|"setup"
    startFail,           \* setup step that failed in the last start() (0: none)
    setupAttempts,       \* calls of start() that went past line 110
    devicesOpened,       \* successful alcOpenDevice calls
    buffersGenerated,    \* successful alGenBuffers calls
    mutexInits,          \* pthread_mutex_init / pthread_cond_init calls
    threadsCreated,      \* pthread_create calls
    \* ---- the producer thread
    prodPc,
    prodFrame,           \* the frame pushFrame is enqueueing
    pushed,              \* number of pushFrame calls made
    lastShape,           \* shape (count, rate, channels) of the last frame pushed
    shapeChanges,        \* pushes whose shape differed from the push before
    gbsResult,           \* value getBufferSize is returning
    secResult,           \* value getSecondsPlayed is returning
    \* ---- the playback thread (audioThreadHandler and its callees)
    pc,
    phase,               \* "prebuffer" | "playing" | "reset": the caller of
                         \* popFrame / consumeFrame
    i,                   \* loop index of the prebuffer / reset loops
    frame,               \* AudioFrame *frame
    buffer,              \* ALuint buffer returned by waitForProcessedBuffer
    \* ---- the OpenAL source and buffers
    devQueue,            \* buffers queued on the source, oldest first
    devProcessed,        \* AL_BUFFERS_PROCESSED
    devState,            \* AL_SOURCE_STATE: "initial" | "playing" | "stopped"
    bufData,             \* per buffer: what alBufferData stored
    \* ---- history
    submitted,           \* ids of the frames handed to consumeFrame, in order
    sinceReset,          \* the frames queued on the source by a consumeFrame
                         \* call that reached line 184 after the last
                         \* resetSecondsPlayed (or never was reset)
    \* ---- outside AudioRenderer
    failures,            \* library calls that reported an error so far
    stoppedAt,           \* number of frames pushed before the last stop()
    prebuffer,           \* std::vector<int16_t> prebuffer (line 339)
    fed                  \* the samples audio_feed_sample was given, in order

rendererVars == <<audioQueue, queuedSampleCount, bufferedSampleCount,
                  secondsPlayed, mutex, woken>>
startVars    == <<device, context, startResult, startEntry, startFail,
                  setupAttempts, devicesOpened, buffersGenerated, mutexInits,
                  threadsCreated>>
prodVars     == <<prodPc, prodFrame, pushed, lastShape, shapeChanges,
                  gbsResult, secResult>>
threadVars   == <<pc, phase, i, frame, buffer>>
devVars      == <<devQueue, devProcessed, devState, bufData>>

envVars      == <<failures, stoppedAt, prebuffer, fed>>
auxVars      == <<sinceReset, envVars>>

vars == <<rendererVars, startVars, prodVars, threadVars, devVars, submitted,
          auxVars>>

---------------------------------------------------------------------------
(* Program constants *)

numBuffers == 5

BytesPerSample == 2

BitsPerSample == 16

TicksPerSecond == 7056000

\* audio_feed_sample, src/audio.cpp:355-357
FeedSampleCount == 1024

FeedSampleRate == 44100

FeedChannelCount == 1

Int16Scale == 32767

(* Bounds of the model *)

MaxPush == 6

MaxStreamPush == 10

MaxShapeChanges == 1

MaxStreamShapeChanges == 2

MaxStartAttempts == 4

MaxFeed == 2050

---------------------------------------------------------------------------
(* Inputs *)

(* The frames the producer pushes: audio_feed_sample's 1024 mono samples   *)
(* at 44100 Hz (src/audio.cpp:357), and two other shapes, one differing    *)
(* from it in the channel count only.                                      *)
Shapes == { [sampleCount |-> 1024, sampleRate |-> 44100, channelCount |-> 1],
            [sampleCount |-> 1024, sampleRate |-> 48000, channelCount |-> 2],
            [sampleCount |-> 512,  sampleRate |-> 44100, channelCount |-> 2] }

NoShape == [sampleCount |-> 0, sampleRate |-> 0, channelCount |-> 0]

ShapeOf(f) == [sampleCount |-> f.sampleCount, sampleRate |-> f.sampleRate,
               channelCount |-> f.channelCount]

NoFrame == [id |-> 0, sampleCount |-> 0, sampleRate |-> 0, channelCount |-> 0]

NewFrame(n, sampleCount, sampleRate, channelCount) ==
    [id |-> n, sampleCount |-> sampleCount, sampleRate |-> sampleRate,
     channelCount |-> channelCount]

Buffers == 0 .. (numBuffers - 1)

\* the name 0, which alGenBuffers gives to no buffer: what a function
\* returning ALuint returns for `return false` (lines 12-19, 209)
NullName == -1

\* a buffer alGenBuffers made and alBufferData never filled: no data, and
\* the attributes of an empty buffer (16 bits, 1 channel)
EmptyBuffer == [frame |-> NoFrame, size |-> 0, frequency |-> 0,
                channels |-> 1, bits |-> BitsPerSample]

RECURSIVE SumSamples(_)
SumSamples(s) ==
    IF s = <<>> THEN 0 ELSE Head(s).sampleCount + SumSamples(Tail(s))

\* stop() was not called yet
NeverStopped == -1

---------------------------------------------------------------------------
Init ==
    /\ audioQueue = <<>>
    /\ queuedSampleCount = 0
    /\ bufferedSampleCount = 0
    /\ secondsPlayed = 0
    /\ device = FALSE
    /\ context = FALSE
    /\ mutex = "free"
    /\ woken = FALSE
    /\ startResult = "none"
    /\ startEntry = "none"
    /\ startFail = 0
    /\ setupAttempts = 0
    /\ devicesOpened = 0
    /\ buffersGenerated = 0
    /\ mutexInits = 0
    /\ threadsCreated = 0
    /\ prodPc = "idle"
    /\ prodFrame = NoFrame
    /\ pushed = 0
    /\ lastShape = NoShape
    /\ shapeChanges = 0
    /\ gbsResult = 0
    /\ secResult = 0
    /\ pc = "none"
    /\ phase = "prebuffer"
    /\ i = 0
    /\ frame = NoFrame
    /\ buffer = 0
    /\ devQueue = <<>>
    /\ devProcessed = 0
    /\ devState = "initial"
    /\ bufData = [b \in Buffers |-> EmptyBuffer]
    /\ submitted = <<>>
    /\ sinceReset = <<>>
    /\ failures = 0
    /\ stoppedAt = NeverStopped
    /\ prebuffer = <<>>
    /\ fed = <<>>


---------------------------------------------------------------------------
(* AudioRenderer::start, src/audio.cpp:106-139.  One call is one step: no  *)
(* other thread touches what it writes before pthread_create.  failAt is   *)
(* the setup call that reports an error in this call (0: none):            *)
(*   1 alcOpenDevice   2 alcCreateContext   3 alcMakeContextCurrent        *)
(*   4 alListenerf     5 alDistanceModel    6 alGenBuffers   7 alGenSources *)

SetupSteps == 1 .. 7

AlreadyStartedNever == FALSE

AlreadyStarted == context

StartReturnsEarly ==
    /\ AlreadyStarted
    /\ startResult' = "true"
    /\ startEntry' = "already"
    /\ startFail' = 0
    /\ UNCHANGED <<device, context, setupAttempts, devicesOpened,
                   buffersGenerated, mutexInits, threadsCreated>>
    /\ UNCHANGED <<pc>>

StartSetup(failAt) ==
    /\ ~AlreadyStarted
    /\ setupAttempts < MaxStartAttempts
    /\ setupAttempts' = setupAttempts + 1
    /\ startEntry' = "setup"
    /\ startFail' = failAt
    \* device = alcOpenDevice(NULL)
    /\ device' = (failAt # 1)
    /\ devicesOpened' = IF failAt # 1 THEN devicesOpened + 1 ELSE devicesOpened
    \* context = alcCreateContext(device, NULL), reached unless step 1 failed;
    \* a failed alcCreateContext returns NULL
    /\ context' = (failAt \notin {1, 2})
    /\ buffersGenerated' = IF failAt \in 1 .. 6 THEN buffersGenerated
                           ELSE buffersGenerated + 1
    /\ IF failAt # 0
       THEN \* CHECK_ALC_ERRORS / CHECK_AL_ERRORS: return false
            /\ startResult' = "false"
            /\ UNCHANGED <<mutexInits, threadsCreated, pc>>
       ELSE \* pthread_mutex_init, pthread_cond_init, pthread_create
            /\ startResult' = "true"
            /\ mutexInits' = mutexInits + 1
            /\ threadsCreated' = threadsCreated + 1
            /\ pc' = "pop_lock"

\* one call of start(); failAt matters only when the setup is run
StartCall(failAt) ==
    /\ prodPc = "idle"
    /\ IF AlreadyStarted THEN StartReturnsEarly ELSE StartSetup(failAt)
    /\ UNCHANGED <<rendererVars, prodVars, phase, i, frame, buffer, devVars,
                   submitted, auxVars>>

---------------------------------------------------------------------------
(* AudioRenderer::stop, src/audio.cpp:141-144, also what audio_deinit      *)
(* calls (line 351): a stub with an empty body.                            *)

StopStopsSource ==
    /\ prodPc = "idle"
    /\ stoppedAt' = pushed
    /\ devState' = IF devState = "initial" THEN "initial" ELSE "stopped"
    /\ devProcessed' = IF devState = "initial" THEN 0 ELSE Len(devQueue)
    /\ UNCHANGED <<rendererVars, startVars, prodVars, threadVars, devQueue,
                   bufData, submitted, sinceReset, failures, prebuffer, fed>>

StopCall ==
    /\ prodPc = "idle"
    /\ stoppedAt' = pushed
    /\ UNCHANGED <<rendererVars, startVars, prodVars, threadVars, devVars,
                   submitted, sinceReset, failures, prebuffer, fed>>

---------------------------------------------------------------------------
(* The producer-facing API.  The calls lock the mutex start() initialised,  *)
(* so they are made once start() has run to its end.                       *)

Ready == mutexInits > 0

\* src/audio.cpp:286-298: the frame is built before the mutex is taken
PushFrameCall(sampleCount, sampleRate, channelCount) ==
    /\ Ready
    /\ prodPc = "idle"
    /\ prodFrame' = NewFrame(pushed + 1, sampleCount, sampleRate, channelCount)
    /\ pushed' = pushed + 1
    /\ lastShape' = ShapeOf(prodFrame')
    /\ shapeChanges' = IF lastShape \in {NoShape, lastShape'} THEN shapeChanges
                       ELSE shapeChanges + 1
    /\ prodPc' = "pf_lock"
    /\ UNCHANGED <<rendererVars, startVars, gbsResult, secResult, threadVars,
                   devVars, submitted, auxVars>>

\* src/audio.cpp:300
PushFrameLock ==
    /\ prodPc = "pf_lock"
    /\ mutex = "free"
    /\ mutex' = "producer"
    /\ prodPc' = "pf_push"
    /\ UNCHANGED <<audioQueue, queuedSampleCount, bufferedSampleCount,
                   secondsPlayed, woken, startVars, prodFrame, pushed,
                   lastShape, shapeChanges, gbsResult, secResult, threadVars,
                   devVars, submitted, auxVars>>

Enqueue(q, f) == Append(q, f)

\* src/audio.cpp:303
PushFrameEnqueue ==
    /\ prodPc = "pf_push"
    /\ audioQueue' = Enqueue(audioQueue, prodFrame)
    /\ prodPc' = "pf_count"
    /\ UNCHANGED <<queuedSampleCount, bufferedSampleCount, secondsPlayed,
                   mutex, woken, startVars, prodFrame, pushed, lastShape,
                   shapeChanges, gbsResult, secResult, threadVars, devVars,
                   submitted, auxVars>>

QueuedAfterPush(n, f) == n + f.sampleCount

\* pthread_cond_signal wakes the playback thread if it waits in popFrame
SignalCond == (pc = "pop_wait")

\* audio_feed_sample is inside its call of pushFrame (line 357): only there
\* is the prebuffer full
InFeedSample == Len(prebuffer) = FeedSampleCount

\* where pushFrame returns to: line 358 of audio_feed_sample, or the
\* application
PushFrameReturn == IF InFeedSample THEN "feed_clear" ELSE "idle"

\* src/audio.cpp:306-309
PushFrameCount ==
    /\ prodPc = "pf_count"
    /\ queuedSampleCount' = QueuedAfterPush(queuedSampleCount, prodFrame)
    /\ woken' = (woken \/ SignalCond)
    /\ mutex' = "free"
    /\ prodFrame' = NoFrame
    /\ prodPc' = PushFrameReturn
    /\ UNCHANGED <<audioQueue, bufferedSampleCount, secondsPlayed, startVars,
                   pushed, lastShape, shapeChanges, gbsResult, secResult,
                   threadVars, devVars, submitted, auxVars>>

\* src/audio.cpp:328-331
GetBufferSizeCall ==
    /\ Ready
    /\ prodPc = "idle"
    /\ prodPc' = "gbs_lock"
    /\ UNCHANGED <<rendererVars, startVars, prodFrame, pushed, lastShape,
                   shapeChanges, gbsResult, secResult, threadVars, devVars,
                   submitted, auxVars>>

GetBufferSizeLock ==
    /\ prodPc = "gbs_lock"
    /\ mutex = "free"
    /\ mutex' = "producer"
    /\ prodPc' = "gbs_read"
    /\ UNCHANGED <<audioQueue, queuedSampleCount, bufferedSampleCount,
                   secondsPlayed, woken, startVars, prodFrame, pushed,
                   lastShape, shapeChanges, gbsResult, secResult, threadVars,
                   devVars, submitted, auxVars>>

BufferSize == bufferedSampleCount + queuedSampleCount

\* src/audio.cpp:332-333
GetBufferSizeRead ==
    /\ prodPc = "gbs_read"
    /\ gbsResult' = BufferSize
    /\ mutex' = "free"
    /\ prodPc' = "gbs_ret"
    /\ UNCHANGED <<audioQueue, queuedSampleCount, bufferedSampleCount,
                   secondsPlayed, woken, startVars, prodFrame, pushed,
                   lastShape, shapeChanges, secResult, threadVars, devVars,
                   submitted, auxVars>>

\* src/audio.cpp:335
GetBufferSizeReturn ==
    /\ prodPc = "gbs_ret"
    /\ gbsResult' = 0
    /\ prodPc' = "idle"
    /\ UNCHANGED <<rendererVars, startVars, prodFrame, pushed, lastShape,
                   shapeChanges, secResult, threadVars, devVars, submitted, auxVars>>

\* src/audio.cpp:312-315
GetSecondsPlayedCall ==
    /\ Ready
    /\ prodPc = "idle"
    /\ prodPc' = "gsp_lock"
    /\ UNCHANGED <<rendererVars, startVars, prodFrame, pushed, lastShape,
                   shapeChanges, gbsResult, secResult, threadVars, devVars,
                   submitted, auxVars>>

GetSecondsPlayedLock ==
    /\ prodPc = "gsp_lock"
    /\ mutex = "free"
    /\ mutex' = "producer"
    /\ prodPc' = "gsp_read"
    /\ UNCHANGED <<audioQueue, queuedSampleCount, bufferedSampleCount,
                   secondsPlayed, woken, startVars, prodFrame, pushed,
                   lastShape, shapeChanges, gbsResult, secResult, threadVars,
                   devVars, submitted, auxVars>>

\* src/audio.cpp:316-317
GetSecondsPlayedRead ==
    /\ prodPc = "gsp_read"
    /\ secResult' = secondsPlayed
    /\ mutex' = "free"
    /\ prodPc' = "gsp_ret"
    /\ UNCHANGED <<audioQueue, queuedSampleCount, bufferedSampleCount,
                   secondsPlayed, woken, startVars, prodFrame, pushed,
                   lastShape, shapeChanges, gbsResult, threadVars, devVars,
                   submitted, auxVars>>

\* src/audio.cpp:319
GetSecondsPlayedReturn ==
    /\ prodPc = "gsp_ret"
    /\ secResult' = 0
    /\ prodPc' = "idle"
    /\ UNCHANGED <<rendererVars, startVars, prodFrame, pushed, lastShape,
                   shapeChanges, gbsResult, threadVars, devVars, submitted, auxVars>>

\* src/audio.cpp:322-323
ResetSecondsPlayedCall ==
    /\ Ready
    /\ prodPc = "idle"
    /\ prodPc' = "rsp_lock"
    /\ UNCHANGED <<rendererVars, startVars, prodFrame, pushed, lastShape,
                   shapeChanges, gbsResult, secResult, threadVars, devVars,
                   submitted, auxVars>>

ResetSecondsPlayedLock ==
    /\ prodPc = "rsp_lock"
    /\ mutex = "free"
    /\ mutex' = "producer"
    /\ prodPc' = "rsp_set"
    /\ UNCHANGED <<audioQueue, queuedSampleCount, bufferedSampleCount,
                   secondsPlayed, woken, startVars, prodFrame, pushed,
                   lastShape, shapeChanges, gbsResult, secResult, threadVars,
                   devVars, submitted, auxVars>>

SecondsAfterReset == 0

\* the frame of a consumeFrame call that waits for the mutex at line 183
InFlight == IF pc = "cf_lock" THEN <<frame>> ELSE <<>>

\* src/audio.cpp:324-326
ResetSecondsPlayedSet ==
    /\ prodPc = "rsp_set"
    /\ secondsPlayed' = SecondsAfterReset
    /\ sinceReset' = InFlight
    /\ mutex' = "free"
    /\ prodPc' = "idle"
    /\ UNCHANGED <<audioQueue, queuedSampleCount, bufferedSampleCount, woken,
                   startVars, prodFrame, pushed, lastShape, shapeChanges,
                   gbsResult, secResult, threadVars, devVars, submitted,
                   envVars>>

---------------------------------------------------------------------------
(* audio_feed_sample, src/audio.cpp:354-360.  A sample is a double; here   *)
(* it is a number of thousandths, between -1000 and 1000 (a product        *)
(* outside the range of int16_t is not converted by defined behaviour).    *)

\* (int16_t)(sample * 32767.0), line 355: the product, truncated towards 0
ToInt16(sample) ==
    LET p == sample * Int16Scale
    IN  IF p >= 0 THEN p \div 1000 ELSE 0 - ((0 - p) \div 1000)

\* src/audio.cpp:288-298: the frame pushFrame builds from the first
\* sampleCount * channelCount values of samples
FrameWithSamples(n, samples, sampleCount, sampleRate, channelCount) ==
    [id |-> n, sampleCount |-> sampleCount, sampleRate |-> sampleRate,
     channelCount |-> channelCount,
     samples |-> SubSeq(samples, 1, sampleCount * channelCount)]

PrebufferKept(pb) == pb

\* src/audio.cpp:358: prebuffer.clear()
PrebufferCleared(pb) == <<>>

\* src/audio.cpp:355-357, up to the lock of pushFrame (line 300); the
\* prebuffer and the frame under construction are the producer's alone
AudioFeedSample(sample) ==
    /\ Ready
    /\ prodPc = "idle"
    /\ fed' = Append(fed, sample)
    /\ prebuffer' = Append(prebuffer, ToInt16(sample))
    /\ IF Len(prebuffer') = FeedSampleCount
       THEN /\ prodFrame' = FrameWithSamples(pushed + 1, prebuffer',
                                             FeedSampleCount, FeedSampleRate,
                                             FeedChannelCount)
            /\ pushed' = pushed + 1
            /\ lastShape' = ShapeOf(prodFrame')
            /\ shapeChanges' =
                   IF lastShape \in {NoShape, lastShape'} THEN shapeChanges
                   ELSE shapeChanges + 1
            /\ prodPc' = "pf_lock"
       ELSE UNCHANGED <<prodPc, prodFrame, pushed, lastShape, shapeChanges>>
    /\ UNCHANGED <<rendererVars, startVars, gbsResult, secResult, threadVars,
                   devVars, submitted, sinceReset, failures, stoppedAt>>

\* src/audio.cpp:358-359, after pushFrame has returned
AudioFeedSampleClear ==
    /\ prodPc = "feed_clear"
    /\ prebuffer' = PrebufferCleared(prebuffer)
    /\ prodPc' = "idle"
    /\ UNCHANGED <<rendererVars, startVars, prodFrame, pushed, lastShape,
                   shapeChanges, gbsResult, secResult, threadVars, devVars,
                   submitted, sinceReset, failures, stoppedAt, fed>>

---------------------------------------------------------------------------
(* AudioRenderer::popFrame, src/audio.cpp:150-171 *)

\* src/audio.cpp:151
PopFrameLock ==
    /\ pc = "pop_lock"
    /\ mutex = "free"
    /\ mutex' = "thread"
    /\ pc' = "pop_check"
    /\ UNCHANGED <<audioQueue, queuedSampleCount, bufferedSampleCount,
                   secondsPlayed, woken, startVars, prodVars, phase, i,
                   frame, buffer, devVars, submitted, auxVars>>

MutexKeptInCondWait == "thread"

\* pthread_cond_wait releases the mutex for the time of the wait
MutexInCondWait == "free"

\* src/audio.cpp:154-155
PopFrameWait ==
    /\ pc = "pop_check"
    /\ audioQueue = <<>>
    /\ mutex' = MutexInCondWait
    /\ woken' = FALSE
    /\ pc' = "pop_wait"
    /\ UNCHANGED <<audioQueue, queuedSampleCount, bufferedSampleCount,
                   secondsPlayed, startVars, prodVars, phase, i, frame,
                   buffer, devVars, submitted, auxVars>>

\* src/audio.cpp:155: pthread_cond_wait returns, holding the mutex again
PopFrameWake ==
    /\ pc = "pop_wait"
    /\ woken
    /\ mutex = "free"
    /\ mutex' = "thread"
    /\ woken' = FALSE
    /\ pc' = "pop_check"
    /\ UNCHANGED <<audioQueue, queuedSampleCount, bufferedSampleCount,
                   secondsPlayed, startVars, prodVars, phase, i, frame,
                   buffer, devVars, submitted, auxVars>>

FrontIsNewest(q) == q[Len(q)]

Front(q) == Head(q)

Pop(q) == Tail(q)

\* src/audio.cpp:163-164
PopFrameFront ==
    /\ pc = "pop_check"
    /\ audioQueue # <<>>
    /\ frame' = Front(audioQueue)
    /\ audioQueue' = Pop(audioQueue)
    /\ pc' = "pop_dec"
    /\ UNCHANGED <<queuedSampleCount, bufferedSampleCount, secondsPlayed,
                   mutex, woken, startVars, prodVars, phase, i, buffer,
                   devVars, submitted, auxVars>>

QueuedAfterPopKept(n, f) == n

QueuedAfterPop(n, f) == n - f.sampleCount

\* src/audio.cpp:167-170, and the return to the caller: the format check of
\* the steady-state loop (line 246), or consumeFrame (lines 232, 279)
PopFrameCount ==
    /\ pc = "pop_dec"
    /\ queuedSampleCount' = QueuedAfterPop(queuedSampleCount, frame)
    /\ mutex' = "free"
    /\ pc' = IF phase = "playing" THEN "fmt_check" ELSE "cf_data"
    /\ UNCHANGED <<audioQueue, bufferedSampleCount, secondsPlayed, woken,
                   startVars, prodVars, phase, i, frame, buffer, devVars,
                   submitted, auxVars>>

---------------------------------------------------------------------------
(* AudioRenderer::consumeFrame, src/audio.cpp:173-189 *)

\* the ALuint buffer argument: buffers[i] in the prebuffer and reset loops
\* (lines 232, 276, 279), the reclaimed buffer in steady state (line 257)
TargetBufferFirst == IF phase = "playing" THEN buffer ELSE 0

TargetBuffer == IF phase = "playing" THEN buffer ELSE i

\* src/audio.cpp:174-177
BufferContents(f) ==
    [frame |-> f,
     size |-> f.sampleCount * f.channelCount * BytesPerSample,
     frequency |-> f.sampleRate,
     channels |-> f.channelCount,
     bits |-> BitsPerSample]

\* src/audio.cpp:177-178: alBufferData fills a buffer alGenBuffers made; on
\* the name 0 it reports an error, which is ignored
ConsumeBufferData ==
    /\ pc = "cf_data"
    /\ frame # NoFrame
    /\ bufData' = IF TargetBuffer \in Buffers
                  THEN [bufData EXCEPT ![TargetBuffer] = BufferContents(frame)]
                  ELSE bufData
    /\ pc' = "cf_queue"
    /\ UNCHANGED <<rendererVars, startVars, prodVars, phase, i, frame,
                   buffer, devQueue, devProcessed, devState, submitted, auxVars>>

\* src/audio.cpp:180-181.  On a stopped source every queued buffer counts
\* as processed.  Queueing the name 0 reports an error, which is ignored.
ConsumeQueueBuffer ==
    /\ pc = "cf_queue"
    /\ IF TargetBuffer \in Buffers
       THEN /\ devQueue' = Append(devQueue, TargetBuffer)
            /\ devProcessed' = IF devState = "stopped" THEN Len(devQueue) + 1
                               ELSE devProcessed
            /\ submitted' = Append(submitted, frame.id)
            /\ sinceReset' = Append(sinceReset, frame)
       ELSE UNCHANGED <<devQueue, devProcessed, submitted, sinceReset>>
    /\ pc' = "cf_lock"
    /\ UNCHANGED <<rendererVars, startVars, prodVars, phase, i, frame,
                   buffer, devState, bufData, envVars>>

\* src/audio.cpp:183
ConsumeLock ==
    /\ pc = "cf_lock"
    /\ mutex = "free"
    /\ mutex' = "thread"
    /\ pc' = "cf_count"
    /\ UNCHANGED <<audioQueue, queuedSampleCount, bufferedSampleCount,
                   secondsPlayed, woken, startVars, prodVars, phase, i,
                   frame, buffer, devVars, submitted, auxVars>>

BufferedAfterSubmit(n, f) == n + f.sampleCount

TicksIntegerDivision(f) == (f.sampleCount \div f.sampleRate) * TicksPerSecond

Ticks(f) == f.sampleCount * (TicksPerSecond \div f.sampleRate)

SecondsAfterSubmitLess(t, f) == t - Ticks(f)

SecondsAfterSubmit(t, f) == t + Ticks(f)

\* src/audio.cpp:184-188, and the return to the caller: the next round of the
\* prebuffer / reset loop (lines 231, 278), alSourcePlay after the loop
\* (line 238), or the state query of the steady-state loop (line 262)
ConsumeCount ==
    /\ pc = "cf_count"
    /\ bufferedSampleCount' = BufferedAfterSubmit(bufferedSampleCount, frame)
    /\ secondsPlayed' = SecondsAfterSubmit(secondsPlayed, frame)
    /\ mutex' = "free"
    /\ frame' = NoFrame
    /\ IF phase = "playing"
       THEN /\ pc' = "st_query"
            /\ UNCHANGED <<phase, i>>
       ELSE IF i + 1 < numBuffers
            THEN /\ i' = i + 1
                 /\ pc' = "pop_lock"
                 /\ UNCHANGED phase
            ELSE /\ i' = 0
                 /\ phase' = "playing"
                 /\ pc' = "play"
    /\ UNCHANGED <<audioQueue, queuedSampleCount, woken, startVars, prodVars,
                   buffer, devVars, submitted, auxVars>>

---------------------------------------------------------------------------
(* AudioRenderer::waitForProcessedBuffer, src/audio.cpp:191-227 *)

\* src/audio.cpp:196-205: the loop leaves once a buffer is processed
WaitPoll ==
    /\ pc = "wf_poll"
    /\ devProcessed > 0
    /\ pc' = "wf_unqueue"
    /\ UNCHANGED <<rendererVars, startVars, prodVars, phase, i, frame,
                   buffer, devVars, submitted, auxVars>>

\* src/audio.cpp:208: the source gives back its oldest processed buffer
WaitUnqueue ==
    /\ pc = "wf_unqueue"
    /\ devQueue # <<>>
    /\ devProcessed > 0
    /\ buffer' = Head(devQueue)
    /\ devQueue' = Tail(devQueue)
    /\ devProcessed' = devProcessed - 1
    /\ pc' = "wf_lock"
    /\ UNCHANGED <<rendererVars, startVars, prodVars, phase, i, frame,
                   devState, bufData, submitted, auxVars>>

\* src/audio.cpp:222
WaitLock ==
    /\ pc = "wf_lock"
    /\ mutex = "free"
    /\ mutex' = "thread"
    /\ pc' = "wf_count"
    /\ UNCHANGED <<audioQueue, queuedSampleCount, bufferedSampleCount,
                   secondsPlayed, woken, startVars, prodVars, phase, i,
                   frame, buffer, devVars, submitted, auxVars>>

\* src/audio.cpp:212-221
BufferSamples(b) == (b.size * 8) \div (b.channels * b.bits)

BufferedAfterReclaim(n, b) == n - BufferSamples(b)

\* src/audio.cpp:223-226, then popFrame (line 244)
WaitCount ==
    /\ pc = "wf_count"
    /\ bufferedSampleCount' =
           BufferedAfterReclaim(bufferedSampleCount, bufData[buffer])
    /\ mutex' = "free"
    /\ pc' = "pop_lock"
    /\ UNCHANGED <<audioQueue, queuedSampleCount, secondsPlayed, woken,
                   startVars, prodVars, phase, i, frame, buffer, devVars,
                   submitted, auxVars>>

---------------------------------------------------------------------------
(* AudioRenderer::audioThreadHandler, src/audio.cpp:229-284 *)

\* alSourcePlay: the source plays its queue from the first buffer; with
\* nothing queued it stops at once
SourcePlay ==
    /\ devProcessed' = 0
    /\ devState' = IF devQueue = <<>> THEN "stopped" ELSE "playing"
    /\ UNCHANGED <<devQueue, bufData>>

\* src/audio.cpp:238
Play ==
    /\ pc = "play"
    /\ SourcePlay
    /\ pc' = "wf_poll"
    /\ UNCHANGED <<rendererVars, startVars, prodVars, phase, i, frame,
                   buffer, submitted, auxVars>>

FormatChangedRateOnly(b, f) == b.frequency # f.sampleRate

\* src/audio.cpp:252
FormatChanged(b, f) ==
    b.frequency # f.sampleRate \/ b.channels # f.channelCount

\* src/audio.cpp:246-257
FormatCheck ==
    /\ pc = "fmt_check"
    /\ frame # NoFrame
    /\ buffer \in Buffers
    /\ pc' = IF FormatChanged(bufData[buffer], frame) THEN "reset_detach"
             ELSE "cf_data"
    /\ UNCHANGED <<rendererVars, startVars, prodVars, phase, i, frame,
                   buffer, devVars, submitted, auxVars>>

NeedsReplayNever(state) == FALSE

\* src/audio.cpp:263
NeedsReplay(state) == state # "playing"

\* src/audio.cpp:261-263
StateQuery ==
    /\ pc = "st_query"
    /\ pc' = IF NeedsReplay(devState) THEN "st_play" ELSE "wf_poll"
    /\ UNCHANGED <<rendererVars, startVars, prodVars, phase, i, frame,
                   buffer, devVars, submitted, auxVars>>

\* src/audio.cpp:264
Replay ==
    /\ pc = "st_play"
    /\ SourcePlay
    /\ pc' = "wf_poll"
    /\ UNCHANGED <<rendererVars, startVars, prodVars, phase, i, frame,
                   buffer, submitted, auxVars>>

ResetDetachOmitted ==
    /\ pc = "reset_detach"
    /\ pc' = "reset_stop"
    /\ UNCHANGED <<rendererVars, startVars, prodVars, phase, i, frame,
                   buffer, devVars, submitted, auxVars>>

\* src/audio.cpp:270: alSourcei(source, AL_BUFFER, 0) detaches every buffer
ResetDetach ==
    /\ pc = "reset_detach"
    /\ devQueue' = <<>>
    /\ devProcessed' = 0
    /\ pc' = "reset_stop"
    /\ UNCHANGED <<rendererVars, startVars, prodVars, phase, i, frame,
                   buffer, devState, bufData, submitted, auxVars>>

\* src/audio.cpp:273-276: alSourceStop, then consumeFrame(buffers[0], frame)
ResetStop ==
    /\ pc = "reset_stop"
    /\ devState' = IF devState = "initial" THEN "initial" ELSE "stopped"
    /\ devProcessed' = IF devState = "initial" THEN 0 ELSE Len(devQueue)
    /\ phase' = "reset"
    /\ i' = 0
    /\ pc' = "cf_data"
    /\ UNCHANGED <<rendererVars, startVars, prodVars, frame, buffer,
                   devQueue, bufData, submitted, auxVars>>

---------------------------------------------------------------------------
(* The OpenAL source: while playing it finishes its buffers one by one, and *)
(* stops when the last queued buffer is finished (observed by the code at  *)
(* src/audio.cpp:197 and 262).                                             *)
DevicePlaysBuffer ==
    /\ devState = "playing"
    /\ devProcessed < Len(devQueue)
    /\ devProcessed' = devProcessed + 1
    /\ devState' = IF devProcessed + 1 = Len(devQueue) THEN "stopped"
                   ELSE "playing"
    /\ UNCHANGED <<rendererVars, startVars, prodVars, threadVars, devQueue,
                   bufData, submitted, auxVars>>

---------------------------------------------------------------------------
(* Device calls of the playback thread that report an error.  The code     *)
(* prints the error and goes on (CHECK_AL_ERRORS_AND_IGNORE), except after *)
(* alSourceUnqueueBuffers, where waitForProcessedBuffer returns false      *)
(* (CHECK_AL_ERRORS, line 209).  A call that fails has no effect on the    *)
(* source or the buffers.                                                  *)

MaxFailures == 1

MayFail == failures < MaxFailures

Failed ==
    /\ MayFail
    /\ failures' = failures + 1
    /\ UNCHANGED <<sinceReset, stoppedAt, prebuffer, fed>>

\* src/audio.cpp:177-178: alBufferData fails, the buffer keeps what it held
ConsumeBufferDataFails ==
    /\ pc = "cf_data"
    /\ frame # NoFrame
    /\ Failed
    /\ pc' = "cf_queue"
    /\ UNCHANGED <<rendererVars, startVars, prodVars, phase, i, frame,
                   buffer, devVars, submitted>>

\* src/audio.cpp:180-181: alSourceQueueBuffers fails, nothing is queued
ConsumeQueueBufferFails ==
    /\ pc = "cf_queue"
    /\ Failed
    /\ pc' = "cf_lock"
    /\ UNCHANGED <<rendererVars, startVars, prodVars, phase, i, frame,
                   buffer, devVars, submitted>>

\* src/audio.cpp:192-205: alGetSourcei fails and leaves processedCount as it
\* was: uninitialised in the first round of the loop (any value), at most 0
\* in a later round.  The loop goes on or is left.
WaitPollFails ==
    /\ pc = "wf_poll"
    /\ Failed
    /\ pc' \in {"wf_poll", "wf_unqueue"}
    /\ UNCHANGED <<rendererVars, startVars, prodVars, phase, i, frame,
                   buffer, devVars, submitted>>

\* src/audio.cpp:209: return false, without the accounting of lines 212-224;
\* the caller goes on to popFrame (line 244) with the name 0 as its buffer
ReturnFalse ==
    /\ buffer' = NullName
    /\ pc' = "pop_lock"
    /\ UNCHANGED <<rendererVars, startVars, prodVars, phase, i, frame,
                   devVars, submitted>>

\* src/audio.cpp:208-209: alSourceUnqueueBuffers fails
WaitUnqueueFails ==
    /\ pc = "wf_unqueue"
    /\ devProcessed > 0
    /\ Failed
    /\ ReturnFalse

\* src/audio.cpp:208-209: the loop was left with no processed buffer, and
\* the source refuses to give back a buffer it has not processed
WaitUnqueueRejected ==
    /\ pc = "wf_unqueue"
    /\ devProcessed = 0
    /\ ReturnFalse
    /\ UNCHANGED auxVars

\* src/audio.cpp:246-257 with the name 0 as buffer: alGetBufferi reports an
\* error and leaves sampleRate and channelCount uninitialised, so the
\* comparison of line 252 goes either way
FormatCheckUninitialised ==
    /\ pc = "fmt_check"
    /\ frame # NoFrame
    /\ buffer = NullName
    /\ pc' \in {"reset_detach", "cf_data"}
    /\ UNCHANGED <<rendererVars, startVars, prodVars, phase, i, frame,
                   buffer, devVars, submitted, auxVars>>

\* src/audio.cpp:238-239: alSourcePlay fails, the source stays as it is
PlayFails ==
    /\ pc = "play"
    /\ Failed
    /\ pc' = "wf_poll"
    /\ UNCHANGED <<rendererVars, startVars, prodVars, phase, i, frame,
                   buffer, devVars, submitted>>

\* src/audio.cpp:264-265
ReplayFails ==
    /\ pc = "st_play"
    /\ Failed
    /\ pc' = "wf_poll"
    /\ UNCHANGED <<rendererVars, startVars, prodVars, phase, i, frame,
                   buffer, devVars, submitted>>

\* src/audio.cpp:273-276: alSourceStop fails, the source stays as it is
ResetStopFails ==
    /\ pc = "reset_stop"
    /\ Failed
    /\ phase' = "reset"
    /\ i' = 0
    /\ pc' = "cf_data"
    /\ UNCHANGED <<rendererVars, startVars, prodVars, frame, buffer,
                   devVars, submitted>>

\* src/audio.cpp:155-159: pthread_cond_wait reports an error; it does so
\* before it touches the mutex, which the thread goes on holding.  popFrame
\* returns nullptr to its caller without unlocking.
PopFrameWaitFails ==
    /\ pc = "pop_check"
    /\ audioQueue = <<>>
    /\ Failed
    /\ frame' = NoFrame
    /\ pc' = IF phase = "playing" THEN "fmt_check" ELSE "cf_data"
    /\ UNCHANGED <<rendererVars, startVars, prodVars, phase, i, buffer,
                   devVars, submitted>>

\* src/audio.cpp:174 (consumeFrame) and 252 (format check) read
\* frame->channelCount / frame->sampleRate through the null pointer: the
\* process is killed
NullFrameRead ==
    /\ pc \in {"fmt_check", "cf_data"}
    /\ frame = NoFrame
    /\ pc' = "crashed"
    /\ UNCHANGED <<rendererVars, startVars, prodVars, phase, i, frame,
                   buffer, devVars, submitted, auxVars>>

\* the steps the playback thread takes only after an error
PlaybackThreadOnError ==
    \/ WaitUnqueueRejected
    \/ FormatCheckUninitialised

DeviceFails ==
    \/ ConsumeBufferDataFails
    \/ ConsumeQueueBufferFails
    \/ WaitPollFails
    \/ WaitUnqueueFails
    \/ PlayFails
    \/ ReplayFails
    \/ ResetStopFails

---------------------------------------------------------------------------
(* The whole program: the application calls start() once, the setup       *)
(* succeeds, and it then streams frames of any format.                     *)

Start == startResult = "none" /\ StartCall(0)

\* the producer pushes a frame of any shape, within the bounds of the model
PushFrameUpTo(limit, changes) ==
    \E s \in Shapes :
        /\ pushed < limit
        /\ s \in {lastShape} \/ lastShape = NoShape \/ shapeChanges < changes
        /\ PushFrameCall(s.sampleCount, s.sampleRate, s.channelCount)

PushFrame == PushFrameUpTo(MaxPush, MaxShapeChanges)

GetBufferSize ==
    \/ GetBufferSizeCall
    \/ GetBufferSizeLock
    \/ GetBufferSizeRead
    \/ GetBufferSizeReturn

GetSecondsPlayed ==
    \/ GetSecondsPlayedCall
    \/ GetSecondsPlayedLock
    \/ GetSecondsPlayedRead
    \/ GetSecondsPlayedReturn

ResetSecondsPlayed ==
    \/ ResetSecondsPlayedCall
    \/ ResetSecondsPlayedLock
    \/ ResetSecondsPlayedSet

PushFrameSteps == PushFrameLock \/ PushFrameEnqueue \/ PushFrameCount

PlaybackThread ==
    \/ PopFrameLock
    \/ PopFrameWait
    \/ PopFrameWake
    \/ PopFrameFront
    \/ PopFrameCount
    \/ ConsumeBufferData
    \/ ConsumeQueueBuffer
    \/ ConsumeLock
    \/ ConsumeCount
    \/ WaitPoll
    \/ WaitUnqueue
    \/ WaitLock
    \/ WaitCount
    \/ Play
    \/ FormatCheck
    \/ StateQuery
    \/ Replay
    \/ ResetDetach
    \/ ResetStop

Next ==
    \/ Start
    \/ PushFrame
    \/ PushFrameSteps
    \/ GetBufferSize
    \/ GetSecondsPlayed
    \/ ResetSecondsPlayed
    \/ PlaybackThread
    \/ DevicePlaysBuffer

Spec == Init /\ [][Next]_vars

---------------------------------------------------------------------------
(* The producer only pushes frames: longer streams, with no other call.   *)

PushFrameStream == PushFrameUpTo(MaxStreamPush, MaxStreamShapeChanges)

NextStream ==
    \/ Start
    \/ PushFrameStream
    \/ PushFrameSteps
    \/ PlaybackThread
    \/ DevicePlaysBuffer

SpecStream == Init /\ [][NextStream]_vars

---------------------------------------------------------------------------
(* start() alone: any sequence of calls, each with any setup step failing. *)

StartAnyCall == \E failAt \in {0} \cup SetupSteps : StartCall(failAt)

(* Scheduling: a producer call that can take a step takes it (the         *)
(* producer need not start another call); the playback thread takes its    *)
(* next step, and when that step is taking the mutex it gets the mutex if  *)
(* the mutex is free again and again; the source keeps playing what is     *)
(* queued.                                                                 *)

ProducerInCall ==
    \/ PushFrameSteps
    \/ GetBufferSizeLock
    \/ GetBufferSizeRead
    \/ GetBufferSizeReturn
    \/ GetSecondsPlayedLock
    \/ GetSecondsPlayedRead
    \/ GetSecondsPlayedReturn
    \/ ResetSecondsPlayedLock
    \/ ResetSecondsPlayedSet

Fairness ==
    /\ WF_vars(ProducerInCall)
    /\ SF_vars(PlaybackThread)
    /\ WF_vars(DevicePlaysBuffer)

FairSpec == Spec /\ Fairness

SpecStart == Init /\ [][StartAnyCall]_vars

---------------------------------------------------------------------------
(* The application feeds single samples through audio_feed_sample.  The   *)
(* stream is one of a few ramps: the first sample is chosen, each next one *)
(* is the one before plus 7 thousandths, wrapping from 1 to -1.  With      *)
(* fewer than numBuffers frames pushed the playback thread is in its       *)
(* prebuffer loop.                                                         *)

FirstSamples == {-1000, 3}

NextSample(x) == IF x + 7 > 1000 THEN x + 7 - 2001 ELSE x + 7

FeedInputs ==
    IF fed = <<>> THEN FirstSamples ELSE {NextSample(fed[Len(fed)])}

Feed ==
    \E sample \in FeedInputs : Len(fed) < MaxFeed /\ AudioFeedSample(sample)

PlaybackThreadPrebuffer ==
    \/ PopFrameLock
    \/ PopFrameWait
    \/ PopFrameWake
    \/ PopFrameFront
    \/ PopFrameCount
    \/ ConsumeBufferData
    \/ ConsumeQueueBuffer
    \/ ConsumeLock
    \/ ConsumeCount

NextFeed ==
    \/ Start
    \/ Feed
    \/ PushFrameSteps
    \/ AudioFeedSampleClear
    \/ PlaybackThreadPrebuffer

SpecFeed == Init /\ [][NextFeed]_vars

---------------------------------------------------------------------------
(* Streaming with calls of stop() at any time.                            *)

NextStop ==
    \/ Start
    \/ StopCall
    \/ PushFrame
    \/ PushFrameSteps
    \/ PlaybackThread
    \/ DevicePlaysBuffer

SpecStop == Init /\ [][NextStop]_vars

FairnessStop ==
    /\ WF_vars(PushFrameSteps)
    /\ SF_vars(PlaybackThread)
    /\ WF_vars(DevicePlaysBuffer)

FairSpecStop == SpecStop /\ FairnessStop

---------------------------------------------------------------------------
(* Streaming with a condition wait of popFrame that fails.  Once the       *)
(* playback thread has read through the null pointer the process is gone   *)
(* and nothing runs any more.                                              *)

Alive == pc # "crashed"

NextCondWait ==
    \/ Start
    \/ Alive /\ PushFrame
    \/ Alive /\ PushFrameSteps
    \/ Alive /\ GetBufferSize
    \/ PlaybackThread
    \/ PopFrameWaitFails
    \/ NullFrameRead
    \/ Alive /\ DevicePlaysBuffer

SpecCondWait == Init /\ [][NextCondWait]_vars

---------------------------------------------------------------------------
(* Streaming with a device call that fails: the producer keeps pushing,   *)
(* and MaxFailures calls of the playback thread report an error.           *)

NextFault ==
    \/ Start
    \/ PushFrame
    \/ PushFrameSteps
    \/ PlaybackThread
    \/ PlaybackThreadOnError
    \/ DeviceFails
    \/ DevicePlaysBuffer

SpecFault == Init /\ [][NextFault]_vars

\* the producer keeps pushing; no call is bound to fail
FairnessFault ==
    /\ WF_vars(PushFrame \/ PushFrameSteps)
    /\ SF_vars(PlaybackThread \/ PlaybackThreadOnError)
    /\ WF_vars(DevicePlaysBuffer)

FairSpecFault == SpecFault /\ FairnessFault

---------------------------------------------------------------------------
(* What the claims speak about *)

\* the frames resident in the buffers queued on the source, oldest first
RECURSIVE QueuedFrames(_)
QueuedFrames(q) ==
    IF q = <<>> THEN <<>>
    ELSE <<bufData[Head(q)].frame>> \o QueuedFrames(Tail(q))

\* the playback thread is inside consumeFrame / waitForProcessedBuffer
InSubmit == pc \in {"cf_data", "cf_queue", "cf_lock", "cf_count"}

InReclaim == pc \in {"wf_unqueue", "wf_lock", "wf_count"}

InReset == pc \in {"reset_detach", "reset_stop"}

\* the frame the playback thread has popped and not yet queued on the source
FrameInHand ==
    IF frame # NoFrame /\ pc \notin {"cf_lock", "cf_count"} THEN <<frame>>
    ELSE <<>>

\* number of frames popFrame has taken from the queue
Popped == Len(submitted) + Len(FrameInHand)

---------------------------------------------------------------------------
(* C1: the frames handed to consumeFrame are the pushed frames in push     *)
(* order, each exactly once and none skipped: the k-th frame submitted is  *)
(* the k-th frame pushed, the frame in the thread's hand is the next one,  *)
(* and the queue holds the ones after it, in order.                        *)
FifoOrder ==
    /\ \A k \in 1 .. Len(submitted) : submitted[k] = k
    /\ frame # NoFrame =>
           frame.id = IF pc \in {"cf_lock", "cf_count"} THEN Len(submitted)
                      ELSE Len(submitted) + 1
    /\ \A k \in 1 .. Len(audioQueue) : audioQueue[k].id = Popped + k

\* the last frame of a format-change reset has just been queued: the reset
\* submitted the frame that triggered it and numBuffers - 1 popped after it
FifoWitness ==
    /\ phase = "reset"
    /\ i = numBuffers - 1
    /\ pc = "cf_lock"
    /\ Len(submitted) >= 2 * numBuffers

(* C2: all buffers queued on the source share one sample rate and channel  *)
(* count.                                                                  *)
SingleFormatQueued ==
    \A a, b \in {devQueue[k] : k \in 1 .. Len(devQueue)} :
        /\ bufData[a].frequency = bufData[b].frequency
        /\ bufData[a].channels = bufData[b].channels

(* C3: what getBufferSize reads under the mutex is the number of samples   *)
(* in the pipeline: in the queue, in the playback thread's hand, and in    *)
(* the buffers queued on the source.                                       *)
PipelineSamples ==
    SumSamples(audioQueue) + SumSamples(FrameInHand)
        + SumSamples(QueuedFrames(devQueue))

BufferSizeIsPipelineDepth ==
    prodPc = "gbs_read" => BufferSize = PipelineSamples

(* C4: with the mutex free, queuedSampleCount is the sum of sampleCount    *)
(* over the queue; the queue and the counter change only in steps of the   *)
(* thread that holds the mutex (the producer adds, the playback thread     *)
(* removes).                                                               *)
QueuedCountConsistent ==
    /\ [](mutex = "free" => queuedSampleCount = SumSamples(audioQueue))
    /\ [][/\ (Len(audioQueue') > Len(audioQueue)
                \/ queuedSampleCount' > queuedSampleCount)
               => (mutex = "producer" /\ mutex' # "thread")
          /\ (Len(audioQueue') < Len(audioQueue)
                \/ queuedSampleCount' < queuedSampleCount)
               => (mutex = "thread" /\ mutex' # "producer")]_vars

\* frames were pushed and popped, and some are still queued
QueuedCountWitness ==
    /\ mutex = "free"
    /\ queuedSampleCount > 0
    /\ Len(submitted) > 0
    /\ Len(audioQueue) >= 2

(* C5: outside a submit, reclaim or detach step, bufferedSampleCount is    *)
(* the sum of sampleCount over the frames in the buffers queued on the     *)
(* source.                                                                 *)
BufferedCountConsistent ==
    ~(InSubmit \/ InReclaim \/ InReset) =>
        bufferedSampleCount = SumSamples(QueuedFrames(devQueue))

(* C6: secondsPlayed decreases only in the step of resetSecondsPlayed that *)
(* writes it, and that step leaves it 0.                                   *)
ResetStep == prodPc = "rsp_set" /\ prodPc' = "idle"

SecondsMonotonic ==
    [][/\ (secondsPlayed' >= secondsPlayed \/ ResetStep)
       /\ (ResetStep => secondsPlayed' = 0)]_vars

\* the clock is 0 although a frame was accounted for: a reset happened
SecondsWitness ==
    /\ Len(submitted) >= 2
    /\ secondsPlayed = 0
    /\ prodPc = "idle"

(* C9: a start() in which a setup step failed returned false, and a start() *)
(* that returned true means the playback thread exists.                    *)
StartFaithful ==
    /\ (startEntry = "setup" /\ startFail # 0) =>
           (startResult = "false" /\ threadsCreated = 0)
    /\ startResult = "true" => threadsCreated >= 1

(* C10: once start() has returned true, every later call returns true and  *)
(* opens no device, generates no buffers, initialises no mutex and creates *)
(* no thread; there is never more than one playback thread.                *)
StartIdempotent ==
    /\ [](threadsCreated <= 1 /\ mutexInits <= 1)
    /\ [][startResult = "true" =>
            /\ startResult' = "true"
            /\ UNCHANGED <<device, context, setupAttempts, devicesOpened,
                           buffersGenerated, mutexInits, threadsCreated>>]_vars

\* a call made after the successful one returned at line 109
StartIdempotentWitness ==
    /\ startEntry = "already"
    /\ startResult = "true"
    /\ threadsCreated = 1

(* C7: the playback thread does not hold the mutex while it waits for a   *)
(* frame in popFrame or polls the source in waitForProcessedBuffer, and    *)
(* every call of the producer returns.                                     *)
ProducerNeverBlocks ==
    /\ [](pc \in {"pop_wait", "wf_poll", "wf_unqueue"} => mutex # "thread")
    /\ (prodPc # "idle") ~> (prodPc = "idle")

\* a producer call waits for the mutex, which the playback thread holds in
\* popFrame with an empty queue: the thread is about to wait
ProducerNeverBlocksWitness ==
    /\ prodPc \in {"pf_lock", "gbs_lock", "gsp_lock", "rsp_lock"}
    /\ pc = "pop_check"
    /\ audioQueue = <<>>
    /\ mutex = "thread"

(* C8: when the source has stopped after the prebuffering and frame k,     *)
(* whose format is that of the buffers in use, is the next one in the      *)
(* queue, frame k is eventually submitted and the source plays again.      *)
FormatInUse(f) ==
    \A b \in {devQueue[k] : k \in 1 .. Len(devQueue)}
             \cup (IF pc \in {"wf_poll", "wf_unqueue"} THEN {} ELSE {buffer}) :
        ~FormatChanged(bufData[b], f)

Starved(k) ==
    /\ phase = "playing"
    /\ pc \in {"wf_poll", "wf_unqueue", "wf_lock", "wf_count", "pop_lock",
               "pop_check", "pop_wait"}
    /\ devState = "stopped"
    /\ audioQueue # <<>>
    /\ Head(audioQueue).id = k
    /\ FormatInUse(Head(audioQueue))

UnderrunRecovery ==
    \A k \in (numBuffers + 1) .. (MaxPush + 1) :
        Starved(k) ~> (Len(submitted) >= k /\ devState = "playing")

\* the frame pushed after the underrun is submitted and the thread has seen
\* that the source stopped: it is about to reissue play
UnderrunRecoveryWitness ==
    /\ phase = "playing"
    /\ pc = "st_play"
    /\ devState = "stopped"
    /\ Len(submitted) > numBuffers

---------------------------------------------------------------------------
(* C11: whenever no consumeFrame call is between queueing its buffer and   *)
(* its accounting (lines 180-185), secondsPlayed is the sum of             *)
(* sampleCount / sampleRate over the frames submitted since the last       *)
(* resetSecondsPlayed (a frame whose call is between the two lines when    *)
(* the reset happens counts as submitted after it); secondsPlayed changes  *)
(* only in the accounting step of consumeFrame, which adds the frame's     *)
(* sampleCount / sampleRate, and in resetSecondsPlayed; and five           *)
(* 1024-sample frames at 44100 Hz with no reset make 5 * 1024 / 44100 s.   *)
\* sampleCount / sampleRate seconds, in ticks: TicksPerSecond is a multiple
\* of every sample rate pushed
SecondsOfFrame(f) == (TicksPerSecond \div f.sampleRate) * f.sampleCount

RECURSIVE SecondsOf(_)
SecondsOf(s) ==
    IF s = <<>> THEN 0 ELSE SecondsOfFrame(Head(s)) + SecondsOf(Tail(s))

Accounting == pc \in {"cf_lock", "cf_count"}

AccountingStep == pc = "cf_count" /\ pc' # "cf_count"

FiveFeedFrames ==
    /\ Len(sinceReset) = 5
    /\ Len(submitted) = 5
    /\ \A k \in 1 .. 5 : /\ sinceReset[k].sampleCount = 1024
                          /\ sinceReset[k].sampleRate = 44100

---------------------------------------------------------------------------
(* C12: after one device call of the playback thread has failed, every     *)
(* frame pushed from then on is eventually queued on the source (the      *)
(* thread neither ends nor stays stuck), the source working and the        *)
(* producer pushing on.                                                    *)
Submitted(k) == \E j \in 1 .. Len(submitted) : submitted[j] = k

SurvivesDeviceFailure ==
    \A k \in 1 .. MaxPush :
        (failures > 0 /\ pushed < k) ~> Submitted(k)

---------------------------------------------------------------------------
(* C13: until numBuffers frames are submitted the thread, once created, is *)
(* in the prebuffer loop, popping or submitting, and no play was issued;    *)
(* with every pushed frame submitted and fewer than numBuffers pushed it is *)
(* in popFrame; the first play is issued when exactly numBuffers frames     *)
(* were popped and frame k sits in buffers[k - 1], each queued once.        *)
InPopFrame == pc \in {"pop_lock", "pop_check", "pop_wait", "pop_dec"}

FirstPlayStep == pc = "play" /\ pc' # "play" /\ devState = "initial"

PrebufferThenPlay ==
    /\ [](Len(submitted) < numBuffers =>
             /\ devState = "initial"
             /\ phase = "prebuffer"
             /\ (pc = "none" \/ InPopFrame \/ InSubmit))
    /\ []((pc # "none" /\ pushed < numBuffers /\ Len(submitted) = pushed
              /\ ~InSubmit) =>
             (InPopFrame /\ pc # "pop_dec"))
    /\ [][devState = "initial" /\ devState' # "initial" => FirstPlayStep]_vars
    /\ [][FirstPlayStep =>
             /\ Popped = numBuffers
             /\ Len(submitted) = numBuffers
             /\ devQueue = [k \in 1 .. numBuffers |-> k - 1]
             /\ \A k \in 1 .. numBuffers : bufData[k - 1].frame.id = k
             /\ devState' = "playing"]_vars

\* the first play was just issued
PrebufferWitness ==
    /\ Len(submitted) = numBuffers
    /\ devState = "playing"
    /\ devProcessed = 0
    /\ pc = "wf_poll"

---------------------------------------------------------------------------
(* C14: a frame popped in steady state whose sample rate or channel count  *)
(* differs from the reclaimed buffer's is held back, not submitted; when   *)
(* it is submitted, into buffers[0], every buffer is detached and the      *)
(* source stopped; the refill puts each next frame into the next buffer    *)
(* of a stopped source; and play is reissued only with all numBuffers      *)
(* buffers queued, holding that frame and the numBuffers - 1 after it.     *)
Mismatch(b, f) == b.frequency # f.sampleRate \/ b.channels # f.channelCount

HeldBack == InReset \/ (phase = "reset" /\ i = 0 /\ pc = "cf_data")

FormatChangeProtocol ==
    /\ [][(pc = "fmt_check" /\ pc' # "fmt_check"
              /\ Mismatch(bufData[buffer], frame)) =>
             /\ pc' = "reset_detach"
             /\ UNCHANGED <<frame, submitted, devVars>>]_vars
    /\ [](HeldBack =>
             /\ Mismatch(bufData[buffer], frame)
             /\ frame.id = Len(submitted) + 1)
    /\ []((phase = "reset" /\ i = 0 /\ pc = "cf_data") =>
             (devQueue = <<>> /\ devState = "stopped"))
    /\ [](phase = "reset" =>
             (devState = "stopped" /\ pc \notin {"play", "st_play"}))
    /\ [][(phase = "reset" /\ submitted' # submitted) =>
             /\ devQueue' = [k \in 1 .. i + 1 |-> k - 1]
             /\ bufData[i].frame.id = Len(submitted) + 1
             /\ bufData[i].frame = frame]_vars
    /\ [][(pc = "play" /\ pc' # "play" /\ devState # "initial") =>
             /\ devState = "stopped"
             /\ devQueue = [k \in 1 .. numBuffers |-> k - 1]
             /\ \A k \in 1 .. numBuffers :
                    bufData[k - 1].frame.id
                        = Len(submitted) - numBuffers + k]_vars

\* the refill after a format change is done and play is about to be reissued
FormatChangeWitness ==
    /\ pc = "play"
    /\ devState = "stopped"
    /\ Len(devQueue) = numBuffers
    /\ Len(submitted) >= 2 * numBuffers

---------------------------------------------------------------------------
(* C15: at most numBuffers buffers are queued on the source, none twice;   *)
(* consumeFrame fills and queues only a buffer that is not queued; and in  *)
(* steady state the source holds numBuffers buffers, less the one the      *)
(* thread has reclaimed and not yet queued again.                          *)
Queued == {devQueue[k] : k \in 1 .. Len(devQueue)}

Reclaimed ==
    pc \in {"wf_lock", "wf_count", "pop_lock", "pop_check", "pop_wait",
            "pop_dec", "fmt_check", "cf_data", "cf_queue", "reset_detach"}

BuffersBounded ==
    /\ Len(devQueue) <= numBuffers
    /\ Cardinality(Queued) = Len(devQueue)
    /\ Queued \subseteq Buffers
    /\ pc \in {"cf_data", "cf_queue"} => TargetBuffer \notin Queued
    /\ (phase = "playing" /\ pc # "reset_stop") =>
           /\ Len(devQueue) = IF Reclaimed THEN numBuffers - 1 ELSE numBuffers
           /\ Reclaimed => buffer \notin Queued
    /\ (phase = "playing" /\ InSubmit) => TargetBuffer = buffer

\* steady state: a reclaimed buffer was filled with the next frame and
\* queued again
BuffersBoundedWitness ==
    /\ phase = "playing"
    /\ pc = "st_query"
    /\ Len(devQueue) = numBuffers
    /\ Len(submitted) > numBuffers

---------------------------------------------------------------------------
(* C16: while the playback thread waits in popFrame, or polls a source     *)
(* with no processed buffer, bufferedSampleCount is the sum of sampleCount *)
(* over the queued buffers the source has not finished playing; so with    *)
(* the queue empty and every queued buffer played, getBufferSize reads 0.  *)
Unplayed == SubSeq(devQueue, devProcessed + 1, Len(devQueue))

ThreadIdle == pc = "pop_wait" \/ (pc = "wf_poll" /\ devProcessed = 0)

BufferedCountsUnplayed ==
    /\ ThreadIdle =>
           bufferedSampleCount = SumSamples(QueuedFrames(Unplayed))
    /\ (pc = "pop_wait" /\ audioQueue = <<>> /\ Unplayed = <<>>
          /\ prodPc = "gbs_read") => BufferSize = 0

---------------------------------------------------------------------------
(* C17: a call of stop() changes nothing of the renderer, the playback     *)
(* thread or the source, and every frame pushed after it is eventually     *)
(* queued on the source.                                                   *)
StopStep == stoppedAt' # stoppedAt

StopIsNoOp ==
    /\ [][StopStep =>
             UNCHANGED <<rendererVars, startVars, threadVars, devVars,
                         submitted>>]_vars
    /\ \A k \in 1 .. MaxPush :
           (stoppedAt # NeverStopped /\ stoppedAt < k /\ pushed >= k)
               ~> Submitted(k)

\* stop() was called in steady state, a frame was pushed after it, and that
\* frame is queued on the source
StopWitness ==
    /\ stoppedAt >= numBuffers
    /\ Submitted(stoppedAt + 1)
    /\ phase = "playing"

---------------------------------------------------------------------------
(* C18: a buffer leaves the source's queue only after the source has       *)
(* finished playing it, and a buffer is not overwritten while it is        *)
(* queued.                                                                 *)
NoAudioDiscarded ==
    [][/\ \A k \in 1 .. Len(devQueue) :
              devQueue[k] \notin {devQueue'[j] : j \in 1 .. Len(devQueue')}
                  => k <= devProcessed
       /\ \A b \in Buffers : bufData'[b] # bufData[b] => b \notin Queued]_vars

---------------------------------------------------------------------------
(* C19: when popFrame has returned to its caller, the playback thread does *)
(* not hold the mutex and has a frame in its hand, also after a condition  *)
(* wait that failed; it never reads through a null frame.                  *)
PopFrameReturned == pc \in {"fmt_check", "cf_data"}

PopFrameReleasesMutex ==
    /\ PopFrameReturned => (mutex # "thread" /\ frame # NoFrame)
    /\ pc # "crashed"

---------------------------------------------------------------------------
(* C20: between calls of audio_feed_sample, after k calls, k \div 1024     *)
(* frames were pushed and none lost, the prebuffer holds the last          *)
(* k % 1024 samples fed, converted, in order; and the frame a call pushes  *)
(* is the next one, of 1024 mono samples at 44100 Hz, holding the 1024     *)
(* samples fed last, converted, in order.                                  *)
Converted(from, n) == [k \in 1 .. n |-> ToInt16(fed[from + k])]

Enqueued == Len(audioQueue') = Len(audioQueue) + 1

FeedSlicesStream ==
    /\ [](prodPc = "idle" =>
             /\ pushed = Len(fed) \div 1024
             /\ Len(audioQueue) + Popped = pushed
             /\ Len(prebuffer) = Len(fed) % 1024
             /\ prebuffer = Converted(1024 * pushed, Len(fed) % 1024))
    /\ [][Enqueued =>
             LET f == audioQueue'[Len(audioQueue')]
             IN  /\ f.id = Len(audioQueue) + Popped + 1
                 /\ f.id = Len(fed) \div 1024
                 /\ f.sampleCount = 1024
                 /\ f.sampleRate = 44100
                 /\ f.channelCount = 1
                 /\ f.samples = Converted(1024 * (f.id - 1), 1024)]_vars

\* two frames were pushed and a third is being accumulated
FeedWitness ==
    /\ prodPc = "idle"
    /\ pushed = 2
    /\ Len(prebuffer) = 2
    /\ Len(fed) = 2 * 1024 + 2

=============================================================================
